---------------------------- MODULE Spec2Model ----------------------------
(*
  Model of analysis_sr_vs_trad.py: the SmartRefactor vs. Tradicional
  analysis script.  One run is: module import (mkdir of ./results), then
  main(): load_metrics, load_profile, pd.merge, descriptive_stats,
  hypothesis_tests, profile_descriptive, profile_influence, create_boxplots.

  Conventions
    - a CSV cell is the sequence of its characters; the empty cell is << >>;
    - a float is an optional integer in tenths: << >> is NaN, <<15>> is 1.5
      (the cells of the model carry at most one decimal digit);
    - a missing string value (pandas NaN in an object column) is NA;
    - a p-value is an optional integer in thousandths: <<50>> is 0.05;
    - labels are written in ASCII ("Basico" for the accented source label).
*)
EXTENDS Integers, Sequences, FiniteSets, TLC

VARIABLES
    pc,            \* position of the run: "import", a stage of main, "done", "error"
    plot_i,        \* create_boxplots: index of the metric being plotted
    metrics_file,  \* content of ./coleta.csv
    profile_file,  \* content of ./perfil_dos_participantes.csv
    shapiro_p,     \* stats.shapiro(grp).pvalue, per <<metric, tool>>
    dir_exists,    \* ./results exists
    df_metrics, df_profile, df,    \* main's tables (Unset before assignment)
    desc, htest, pdesc, pinf,      \* main's result tables
    written,       \* output files written so far, in order
    finished,      \* stages that have returned, in order
    consumed,      \* pairs <<stage, artifact>>: what each stage has read
    calls,         \* statistics-library calls made so far, in order
    failed_at      \* the stage that raised, or "none"

vars == <<pc, plot_i, metrics_file, profile_file, shapiro_p, dir_exists,
          df_metrics, df_profile, df, desc, htest, pdesc, pinf,
          written, finished, consumed, calls, failed_at>>

-----------------------------------------------------------------------------
(* Bounds of the model *)

MaxRows == 2
MaxProf == 2
MaxID == 2

-----------------------------------------------------------------------------
(* Values *)

Unset == [unset |-> TRUE]
NaN == << >>
NA == "<NA>"
Num(v) == <<v>>

\* the significance level of the normality gate, in thousandths
Alpha == 50

out_dir == "./results"
metrics_csv == "./coleta.csv"
profile_csv == "./perfil_dos_participantes.csv"

exp_order == <<"0-1 anos", "1-2 anos", "3-5 anos", "6+ anos">>
kn_order == <<"Nenhum", "Basico", "Razoavel", "Avancado">>

\* the (metric, label) lists of hypothesis_tests and create_boxplots
MetricList == <<"tempo_h", "erros", "design">>
MetricLabel(m) ==
    CASE m = "tempo_h" -> "Tempo (h)"
      [] m = "erros" -> "Erros Funcionais"
      [] m = "design" -> "Problemas de Design"

\* the metric list of profile_influence
InfluenceMetrics == <<"erros", "design">>
InfluenceLabel(m) == CASE m = "erros" -> "Erros" [] m = "design" -> "Design"
OrdinalCols == <<"exp_num", "kn_ref_num", "kn_java_num">>
OrdinalLabel(c) ==
    CASE c = "exp_num" -> "Experiencia"
      [] c = "kn_ref_num" -> "Conhecimento Refatoracao"
      [] c = "kn_java_num" -> "Conhecimento Java"

Tools == {"SmartRefactor", "Tradicional"}

-----------------------------------------------------------------------------
(* Sequences *)

Range(s) == {s[i] : i \in 1..Len(s)}

RECURSIVE Flatten(_)
Flatten(ss) == IF ss = << >> THEN << >> ELSE Head(ss) \o Flatten(Tail(ss))

RECURSIVE SelectIdx(_, _, _)
\* the subsequence of s at the indices i (ascending) with keep[i]
SelectIdx(s, keep, i) ==
    IF i > Len(s) THEN << >>
    ELSE (IF keep[i] THEN <<s[i]>> ELSE << >>) \o SelectIdx(s, keep, i + 1)

\* boolean indexing: the elements of s whose mask entry is true, in order
Keep(s, mask) == SelectIdx(s, mask, 1)

-----------------------------------------------------------------------------
(* Text conversions *)

Digits == {"0", "1", "2", "3", "4", "5", "6", "7", "8", "9"}
DigitVal(c) ==
    CASE c = "0" -> 0 [] c = "1" -> 1 [] c = "2" -> 2 [] c = "3" -> 3
      [] c = "4" -> 4 [] c = "5" -> 5 [] c = "6" -> 6 [] c = "7" -> 7
      [] c = "8" -> 8 [] c = "9" -> 9

RECURSIVE LStrip(_)
LStrip(t) == IF t # << >> /\ Head(t) = " " THEN LStrip(Tail(t)) ELSE t

RECURSIVE RStrip(_)
RStrip(t) ==
    IF t # << >> /\ t[Len(t)] = " " THEN RStrip(SubSeq(t, 1, Len(t) - 1)) ELSE t

\* str.strip()
Strip(t) == RStrip(LStrip(t))

\* str.replace(",", ".", regex=False)
ReplaceComma(t) == [i \in 1..Len(t) |-> IF t[i] = "," THEN "." ELSE t[i]]

RECURSIVE DigitsVal(_)
DigitsVal(t) == IF t = << >> THEN 0 ELSE DigitsVal(SubSeq(t, 1, Len(t) - 1)) * 10 + DigitVal(t[Len(t)])

DotAt(t) == {i \in 1..Len(t) : t[i] = "."}

\* the text is a decimal literal float() accepts: digits with at most one "."
\* and at least one digit
IsDecimal(t) ==
    /\ t # << >>
    /\ Cardinality(DotAt(t)) <= 1
    /\ \A i \in 1..Len(t) : t[i] \in Digits \cup {"."}
    /\ \E i \in 1..Len(t) : t[i] \in Digits

\* value in tenths of a decimal literal (digits after the first decimal are cut)
DecimalVal(t) ==
    IF DotAt(t) = {} THEN DigitsVal(t) * 10
    ELSE LET d == CHOOSE i \in DotAt(t) : TRUE
             ip == SubSeq(t, 1, d - 1)
             fp == SubSeq(t, d + 1, Len(t))
         IN DigitsVal(ip) * 10 + (IF fp = << >> THEN 0 ELSE DigitVal(fp[1]))

\* float(text): [ok, val]; "nan" parses to NaN, other text raises ValueError
ParseFloat(t) ==
    LET s == Strip(t) IN
    IF s = <<"n", "a", "n">> THEN [ok |-> TRUE, val |-> NaN]
    ELSE IF IsDecimal(s) THEN [ok |-> TRUE, val |-> Num(DecimalVal(s))]
    ELSE [ok |-> FALSE, val |-> NaN]

\* read_csv then .astype(str): an empty cell is NaN and prints as "nan"
AsStr(cell) == IF cell = << >> THEN <<"n", "a", "n">> ELSE cell

\* .astype(str).str.strip().str.replace(",", ".").astype(float) on one cell
ToFloatCell(cell) == ParseFloat(ReplaceComma(Strip(AsStr(cell))))

\* pd.to_numeric(errors="coerce") on one cell: what does not parse is NaN
ToNumericCoerce(cell) ==
    IF cell = << >> THEN NaN
    ELSE IF IsDecimal(cell) THEN Num(DecimalVal(cell)) ELSE NaN

-----------------------------------------------------------------------------
(* Tables.  A CSV file is [header, rows]: header maps each column (named by
   the position it has in the experiment's files) to the header text the
   file carries, rows are records over the same columns.  A DataFrame is
   [cols, rows]: cols are the column names that can be looked up. *)

MetricFields == {"ID", "tempo_h", "loc_mod", "erros", "design", "ferramenta"}
ProfileFields == {"ID", "formacao", "experiencia", "kn_ref", "kn_java"}

\* the header each column carries in the experiment's files
MetricHeader(f) ==
    CASE f = "ID" -> "ID"
      [] f = "tempo_h" -> "Tempo (h)"
      [] f = "loc_mod" -> "LOC Modificadas"
      [] f = "erros" -> "Erros Funcionais"
      [] f = "design" -> "Problemas de Design"
      [] f = "ferramenta" -> "Ferramenta"
ProfileHeader(f) ==
    CASE f = "ID" -> "ID"
      [] f = "formacao" -> "Formacao"
      [] f = "experiencia" -> "Experiencia"
      [] f = "kn_ref" -> "Conhecimento_Refatoracao"
      [] f = "kn_java" -> "Conhecimento_Java"

\* load_metrics: df_raw.rename(columns=rename); other names are kept
RenameMetrics(h) ==
    CASE h = "Tempo (h)" -> "tempo_h"
      [] h = "LOC Modificadas" -> "loc_mod"
      [] h = "Erros Funcionais" -> "erros"
      [] h = "Problemas de Design" -> "design"
      [] h = "Ferramenta" -> "ferramenta"
      [] OTHER -> h

\* load_profile: df.rename(columns=rename); other names are kept
RenameProfile(h) ==
    CASE h = "Formacao" -> "formacao"
      [] h = "Experiencia" -> "experiencia"
      [] h = "Conhecimento_Refatoracao" -> "kn_ref"
      [] h = "Conhecimento_Java" -> "kn_java"
      [] OTHER -> h

\* the column names of a file after the rename
ProfileCols(file) == {RenameProfile(file.header[f]) : f \in DOMAIN file.header}

\* a column can be read under its name when the file's header, renamed, gives it
HasMetricCol(file, f) == RenameMetrics(file.header[f]) = f

\* load_metrics raises KeyError: a column it indexes is not there
MetricsKeyError(file) == \E f \in MetricFields : ~HasMetricCol(file, f)

\* load_metrics raises ValueError: .astype(float) on a text that is no float
MetricsValueError(file) ==
    \E i \in 1..Len(file.rows) : \E f \in {"tempo_h", "loc_mod"} :
        ~ToFloatCell(file.rows[i][f]).ok

\* mutant: the time and lines columns are coerced too, so no text raises
load_metrics_raises_KeyOnly(file) == MetricsKeyError(file)

load_metrics_raises(file) == MetricsKeyError(file) \/ MetricsValueError(file)

\* load_metrics: the table it returns (when it does not raise)
load_metrics(file) ==
    [cols |-> {"ID", "tempo_h", "erros", "design", "ferramenta"},
     rows |-> [i \in 1..Len(file.rows) |->
                 [ID |-> file.rows[i].ID,
                  tempo_h |-> ToFloatCell(file.rows[i].tempo_h).val,
                  erros |-> ToNumericCoerce(file.rows[i].erros),
                  design |-> ToNumericCoerce(file.rows[i].design),
                  ferramenta |-> file.rows[i].ferramenta]]]

\* load_profile: the columns renamed, the rows as read
load_profile(file) ==
    [cols |-> ProfileCols(file), rows |-> file.rows]

\* a metrics row joined with a profile row
JoinRow(m, p) ==
    [ID |-> m.ID, tempo_h |-> m.tempo_h, erros |-> m.erros, design |-> m.design,
     ferramenta |-> m.ferramenta, formacao |-> p.formacao,
     experiencia |-> p.experiencia, kn_ref |-> p.kn_ref, kn_java |-> p.kn_java]

\* the profile fields of a metrics row without a profile
NoProfile == [formacao |-> NA, experiencia |-> NA, kn_ref |-> NA, kn_java |-> NA]

\* mutant: an inner join, which drops a metrics row without a profile
MergeOneInner(m, prows) ==
    LET hits == Keep(prows, [j \in 1..Len(prows) |-> prows[j].ID = m.ID]) IN
    [j \in 1..Len(hits) |-> JoinRow(m, hits[j])]

\* the rows a left join gives for one metrics row: one per matching profile
\* row, in the profile table's order; one with missing fields when none matches
MergeOne(m, prows) ==
    LET hits == Keep(prows, [j \in 1..Len(prows) |-> prows[j].ID = m.ID]) IN
    IF hits = << >> THEN <<JoinRow(m, NoProfile)>>
    ELSE [j \in 1..Len(hits) |-> JoinRow(m, hits[j])]

\* pd.merge raises KeyError: the key column is not in the right table
merge_raises(left, right) == "ID" \notin left.cols \/ "ID" \notin right.cols

\* pd.merge(df_metrics, df_profile, on="ID", how="left")
merge(left, right) ==
    [cols |-> left.cols \cup right.cols,
     rows |-> Flatten([i \in 1..Len(left.rows) |-> MergeOne(left.rows[i], right.rows)])]

\* a column of a table, as a sequence in row order
Column(t, c) == [i \in 1..Len(t.rows) |-> t.rows[i][c]]

\* Series.dropna() on a float column
DropNa(s) == Keep(s, [i \in 1..Len(s) |-> s[i] # NaN])

\* df[df[col] == value][metric]
Where(t, col, value, metric) ==
    Column([cols |-> t.cols,
            rows |-> Keep(t.rows, [i \in 1..Len(t.rows) |-> t.rows[i][col] = value])], metric)

-----------------------------------------------------------------------------
(* descriptive_stats *)

\* groupby("ferramenta"): the group keys, missing keys dropped
GroupKeys(t) == {t.rows[i].ferramenta : i \in 1..Len(t.rows)} \ {NA}

\* mutant: n is the size of the group, missing time values included
descriptive_stats_size(t) ==
    [k \in GroupKeys(t) |-> [n |-> Len(Where(t, "ferramenta", k, "tempo_h"))]]

\* agg n=("tempo_h", "count"): the present values of the group.  The mean and
\* std columns are real-valued library aggregates and are not represented.
descriptive_stats(t) ==
    [k \in GroupKeys(t) |-> [n |-> Len(DropNa(Where(t, "ferramenta", k, "tempo_h")))]]

-----------------------------------------------------------------------------
(* hypothesis_tests *)

\* mutant: p >= 0.05
GreaterOrEqualAlpha(p) == p # NaN /\ p[1] >= Alpha

\* p > 0.05 on an optional p-value: a comparison with NaN is false
GreaterThanAlpha(p) == p # NaN /\ p[1] > Alpha

\* normal = (p_smart > 0.05) and (p_trad > 0.05)
normal(p_smart, p_trad) == GreaterThanAlpha(p_smart) /\ GreaterThanAlpha(p_trad)

\* the library calls of one iteration of the loop over the metrics
HypCalls(t, sp, m) ==
    LET grp_smart == Where(t, "ferramenta", "SmartRefactor", m)
        grp_trad == Where(t, "ferramenta", "Tradicional", m)
        nrm == normal(sp[<<m, "SmartRefactor">>], sp[<<m, "Tradicional">>])
    IN <<[fn |-> "shapiro", metric |-> m, args |-> <<grp_smart>>],
         [fn |-> "shapiro", metric |-> m, args |-> <<grp_trad>>],
         [fn |-> IF nrm THEN "ttest_ind" ELSE "mannwhitneyu", metric |-> m,
          args |-> <<grp_smart, grp_trad>>]>>

\* the row one iteration appends to results
HypRow(sp, m) ==
    LET nrm == normal(sp[<<m, "SmartRefactor">>], sp[<<m, "Tradicional">>]) IN
    [Metrica |-> MetricLabel(m),
     Teste |-> IF nrm THEN "t (Welch)" ELSE "Mann-Whitney",
     Normal |-> nrm]

hypothesis_calls(t, sp) == Flatten([k \in 1..Len(MetricList) |-> HypCalls(t, sp, MetricList[k])])

hypothesis_tests(sp) == [k \in 1..Len(MetricList) |-> HypRow(sp, MetricList[k])]

-----------------------------------------------------------------------------
(* profile_descriptive *)

ProfileCountCols == <<"formacao", "experiencia", "kn_ref", "kn_java">>

\* df_profile[col] raises KeyError for a column that is not there
profile_descriptive_raises(t) == \E c \in Range(ProfileCountCols) : c \notin t.cols

\* Series.value_counts().to_dict(): the present values with their counts
ValueCounts(s) ==
    [v \in Range(s) \ {NA} |-> Cardinality({i \in 1..Len(s) : s[i] = v})]

profile_descriptive(t) == [c \in Range(ProfileCountCols) |-> ValueCounts(Column(t, c))]

-----------------------------------------------------------------------------
(* profile_influence *)

\* mutant: enumerate(order, 1)
OrdinalDictOneBased(order) ==
    [cat \in Range(order) |-> CHOOSE i \in 1..Len(order) : order[i] = cat]

\* {cat: idx for idx, cat in enumerate(order)}: a repeated category keeps its
\* last index
OrdinalDict(order) ==
    [cat \in Range(order) |->
        (CHOOSE i \in 1..Len(order) :
            order[i] = cat /\ \A j \in 1..Len(order) : order[j] = cat => j <= i) - 1]

\* series.map(dict).astype(float): a value that is no key of the dict is NaN.
\* The ordinal columns hold whole numbers: <<2>> is 2.0.
map_ordinal(series, order) ==
    LET d == OrdinalDict(order) IN
    [i \in 1..Len(series) |-> IF series[i] \in DOMAIN d THEN Num(d[series[i]]) ELSE NaN]

\* df[...] raises KeyError for a profile column that is not there
profile_influence_raises(t) == \E c \in {"experiencia", "kn_ref", "kn_java"} : c \notin t.cols

\* df with the columns exp_num, kn_ref_num and kn_java_num assigned in place
WithOrdinals(t) ==
    LET e == map_ordinal(Column(t, "experiencia"), exp_order)
        r == map_ordinal(Column(t, "kn_ref"), kn_order)
        j == map_ordinal(Column(t, "kn_java"), kn_order)
    IN [cols |-> t.cols \cup Range(OrdinalCols),
        rows |-> [i \in 1..Len(t.rows) |->
                    [f \in DOMAIN t.rows[i] \cup Range(OrdinalCols) |->
                        CASE f = "exp_num" -> e[i]
                          [] f = "kn_ref_num" -> r[i]
                          [] f = "kn_java_num" -> j[i]
                          [] OTHER -> t.rows[i][f]]]]

\* the pairs of the two nested Spearman loops, the ordinal column outermost
SpearmanPairs ==
    Flatten([a \in 1..Len(OrdinalCols) |->
                [b \in 1..Len(InfluenceMetrics) |-> <<OrdinalCols[a], InfluenceMetrics[b]>>]])

SpearmanCalls(t) ==
    [k \in 1..Len(SpearmanPairs) |->
        [fn |-> "spearmanr", metric |-> SpearmanPairs[k][2],
         args |-> <<Column(t, SpearmanPairs[k][1]), Column(t, SpearmanPairs[k][2])>>]]

SpearmanRows ==
    [k \in 1..Len(SpearmanPairs) |->
        [Variavel |-> OrdinalLabel(SpearmanPairs[k][1]),
         Metrica |-> InfluenceLabel(SpearmanPairs[k][2]), Teste |-> "Spearman rho"]]

\* "if not df[df["experiencia"]==lvl].empty": the level has a row in the table
LevelOccurs(t, lvl) == \E i \in 1..Len(t.rows) : t.rows[i].experiencia = lvl

\* groups = [df[df["experiencia"]==lvl][metric].dropna() for lvl in exp_order
\*           if not df[df["experiencia"]==lvl].empty]
KruskalGroups(t, metric) ==
    LET lvls == Keep(exp_order, [k \in 1..Len(exp_order) |-> LevelOccurs(t, exp_order[k])]) IN
    [k \in 1..Len(lvls) |-> DropNa(Where(t, "experiencia", lvls[k], metric))]

\* mutant: "if groups:", one group is enough
KruskalGateNonEmpty(groups) == Len(groups) >= 1

\* if len(groups) >= 2
KruskalGate(groups) == Len(groups) >= 2

KruskalCalls(t) ==
    Flatten([b \in 1..Len(InfluenceMetrics) |->
        LET g == KruskalGroups(t, InfluenceMetrics[b]) IN
        IF KruskalGate(g)
        THEN <<[fn |-> "kruskal", metric |-> InfluenceMetrics[b], args |-> g]>>
        ELSE << >>])

KruskalRows(t) ==
    Flatten([b \in 1..Len(InfluenceMetrics) |->
        IF KruskalGate(KruskalGroups(t, InfluenceMetrics[b]))
        THEN <<[Variavel |-> "Experiencia (categorias)",
                Metrica |-> InfluenceLabel(InfluenceMetrics[b]), Teste |-> "Kruskal-Wallis"]>>
        ELSE << >>])

profile_influence_calls(t) == SpearmanCalls(WithOrdinals(t)) \o KruskalCalls(WithOrdinals(t))

profile_influence(t) == SpearmanRows \o KruskalRows(WithOrdinals(t))

-----------------------------------------------------------------------------
(* create_boxplots and the output files *)

OutFile(name) == [dir |-> out_dir, name |-> name]

\* mutant: the file is named after the metric's label
BoxplotNameFromLabel(m) ==
    CASE m = "tempo_h" -> "boxplot_Tempo (h).png"
      [] m = "erros" -> "boxplot_Erros Funcionais.png"
      [] m = "design" -> "boxplot_Problemas de Design.png"

\* f"boxplot_{metric}.png"
BoxplotName(m) ==
    CASE m = "tempo_h" -> "boxplot_tempo_h.png"
      [] m = "erros" -> "boxplot_erros.png"
      [] m = "design" -> "boxplot_design.png"

\* the file main passes to to_csv after each stage
CsvName(stage) ==
    CASE stage = "descriptive_stats" -> "descriptive_stats.csv"
      [] stage = "hypothesis_tests" -> "hypothesis_results.csv"
      [] stage = "profile_descriptive" -> "profile_stats.csv"
      [] stage = "profile_influence" -> "profile_influence.csv"

-----------------------------------------------------------------------------
(* main: the stages, what each reads and what each assigns *)

StageOrder ==
    <<"load_metrics", "load_profile", "merge", "descriptive_stats",
      "hypothesis_tests", "profile_descriptive", "profile_influence",
      "create_boxplots">>

\* the arguments of each call in main
Reads(stage) ==
    CASE stage = "load_metrics" -> {"metrics_csv"}
      [] stage = "load_profile" -> {"profile_csv"}
      [] stage = "merge" -> {"df_metrics", "df_profile"}
      [] stage = "descriptive_stats" -> {"df"}
      [] stage = "hypothesis_tests" -> {"df"}
      [] stage = "profile_descriptive" -> {"df_profile"}
      [] stage = "profile_influence" -> {"df"}
      [] stage = "create_boxplots" -> {"df"}

\* what each call assigns; profile_influence also assigns columns of df
Yields(stage) ==
    CASE stage = "load_metrics" -> {"df_metrics"}
      [] stage = "load_profile" -> {"df_profile"}
      [] stage = "merge" -> {"df"}
      [] stage = "descriptive_stats" -> {"desc"}
      [] stage = "hypothesis_tests" -> {"htest"}
      [] stage = "profile_descriptive" -> {"pdesc"}
      [] stage = "profile_influence" -> {"pinf", "df"}
      [] stage = "create_boxplots" -> {}

StageIndex(stage) == CHOOSE k \in 1..Len(StageOrder) : StageOrder[k] = stage

\* mutant: the frequency tables are computed before the hypothesis tests
NextPcSwapped(stage) ==
    CASE stage = "descriptive_stats" -> "profile_descriptive"
      [] stage = "profile_descriptive" -> "hypothesis_tests"
      [] stage = "hypothesis_tests" -> "profile_influence"
      [] stage = "create_boxplots" -> "done"
      [] OTHER -> StageOrder[StageIndex(stage) + 1]

\* the position after a stage
NextPc(stage) ==
    IF StageIndex(stage) = Len(StageOrder) THEN "done" ELSE StageOrder[StageIndex(stage) + 1]

-----------------------------------------------------------------------------
(* The input files and the library's normality p-values of a run *)

IDs == 1..MaxID

DefaultMetricRow(i) ==
    [ID |-> i, tempo_h |-> <<"1", ",", "5">>, loc_mod |-> <<"1", "0">>,
     erros |-> <<"2">>, design |-> <<"1">>,
     ferramenta |-> IF i % 2 = 1 THEN "SmartRefactor" ELSE "Tradicional"]

DefaultProfileRow(i) ==
    [ID |-> i, formacao |-> "Graduacao",
     experiencia |-> IF i % 2 = 1 THEN "1-2 anos" ELSE "3-5 anos",
     kn_ref |-> "Basico", kn_java |-> "Razoavel"]

DefaultMetricHeader == [f \in MetricFields |-> MetricHeader(f)]
DefaultProfileHeader == [f \in ProfileFields |-> ProfileHeader(f)]

MetricsFileOf(rows) == [header |-> DefaultMetricHeader, rows |-> rows]
ProfileFileOf(rows) == [header |-> DefaultProfileHeader, rows |-> rows]

DefaultMetricsFile(n) == MetricsFileOf([i \in 1..n |-> DefaultMetricRow(i)])
DefaultProfileFile(n) == ProfileFileOf([i \in 1..n |-> DefaultProfileRow(i)])

ShapiroKeys == Range(MetricList) \X Tools
PValues == {<<50>>, <<51>>, NaN}
DefaultShapiro == [k \in ShapiroKeys |-> <<51>>]

Input(m, p, s) == [m |-> m, p |-> p, s |-> s]

\* cells of the numeric columns: a decimal comma, padding, empty, text
TempoCells == {<<"1", ",", "5">>, <<" ", "2", " ">>, << >>, <<"a", "b", "c">>}
LocCells == {<<"1", "0">>, <<"x">>}
CountCells == {<<"2">>, <<"a", "b", "c">>}

\* files whose time and lines-modified cells vary
ParseInputs ==
    UNION {
        {Input(MetricsFileOf([i \in 1..n |->
                    [DefaultMetricRow(i) EXCEPT !.tempo_h = c[i][1], !.loc_mod = c[i][2]]]),
               DefaultProfileFile(n), DefaultShapiro) :
            c \in [1..n -> TempoCells \X LocCells]} : n \in 1..MaxRows}

\* files in which one header is not the expected one: it is another text, or
\* already the name the rename would give
HeaderInputs ==
    UNION {
        {Input([header |-> [DefaultMetricHeader EXCEPT ![f] = h],
                rows |-> DefaultMetricsFile(MaxRows).rows],
               DefaultProfileFile(MaxRows), DefaultShapiro) : h \in {"Outro", f}} :
        f \in MetricFields}
    \cup
    UNION {
        {Input(DefaultMetricsFile(MaxRows),
               [header |-> [DefaultProfileHeader EXCEPT ![f] = h],
                rows |-> DefaultProfileFile(MaxRows).rows],
               DefaultShapiro) : h \in {"Outro", f}} :
        f \in ProfileFields}

\* files whose identifiers vary: profiles missing, repeated or unmatched
JoinInputs ==
    UNION {
        {Input(MetricsFileOf([i \in 1..n |-> [DefaultMetricRow(i) EXCEPT !.ID = a[i]]]),
               ProfileFileOf([i \in 1..k |-> [DefaultProfileRow(i) EXCEPT !.ID = b[i]]]),
               DefaultShapiro) :
            a \in [1..n -> IDs], b \in [1..k -> IDs]} :
        n \in 1..MaxRows, k \in 0..MaxProf}

ExpCats == Range(exp_order) \cup {"10+ anos", NA}
KnCats == Range(kn_order) \cup {"Expert", NA}

\* files whose profile categories vary, one column at a time
OrdinalInputs ==
    UNION {
        {Input(DefaultMetricsFile(n),
               ProfileFileOf([i \in 1..n |-> [DefaultProfileRow(i) EXCEPT !.experiencia = c[i]]]),
               DefaultShapiro) : c \in [1..n -> ExpCats]}
        \cup
        {Input(DefaultMetricsFile(n),
               ProfileFileOf([i \in 1..n |-> [DefaultProfileRow(i) EXCEPT !.kn_ref = c[i]]]),
               DefaultShapiro) : c \in [1..n -> KnCats]}
        \cup
        {Input(DefaultMetricsFile(n),
               ProfileFileOf([i \in 1..n |-> [DefaultProfileRow(i) EXCEPT !.kn_java = c[i]]]),
               DefaultShapiro) : c \in [1..n -> KnCats]} : n \in 1..MaxRows}

\* files whose experience levels and error counts vary together
InfluenceInputs ==
    UNION {
        {Input(MetricsFileOf([i \in 1..n |->
                    [DefaultMetricRow(i) EXCEPT !.erros = c[i][1], !.design = c[i][2]]]),
               ProfileFileOf([i \in 1..n |-> [DefaultProfileRow(i) EXCEPT !.experiencia = c[i][3]]]),
               DefaultShapiro) :
            c \in [1..n -> CountCells \X CountCells \X {"0-1 anos", "3-5 anos", NA}]} :
        n \in 1..MaxRows}

\* files whose tool and time cells vary
ToolInputs ==
    UNION {
        {Input(MetricsFileOf([i \in 1..n |->
                    [DefaultMetricRow(i) EXCEPT !.ferramenta = c[i][1], !.tempo_h = c[i][2]]]),
               DefaultProfileFile(n), DefaultShapiro) :
            c \in [1..n -> (Tools \cup {"Eclipse", NA}) \X {<<"1", ",", "5">>, << >>}]} :
        n \in 1..MaxRows}

\* runs in which the normality p-values vary
GateInputs ==
    {Input(DefaultMetricsFile(MaxRows), DefaultProfileFile(MaxRows), s) :
        s \in [ShapiroKeys -> PValues]}

Inputs ==
    ParseInputs \cup HeaderInputs \cup JoinInputs \cup OrdinalInputs
    \cup InfluenceInputs \cup ToolInputs \cup GateInputs

-----------------------------------------------------------------------------
(* The run *)

Init ==
    /\ \E inp \in Inputs :
        /\ metrics_file = inp.m
        /\ profile_file = inp.p
        /\ shapiro_p = inp.s
    /\ dir_exists \in BOOLEAN
    /\ pc = "import"
    /\ plot_i = 1
    /\ df_metrics = Unset /\ df_profile = Unset /\ df = Unset
    /\ desc = Unset /\ htest = Unset /\ pdesc = Unset /\ pinf = Unset
    /\ written = << >>
    /\ finished = << >>
    /\ consumed = {}
    /\ calls = << >>
    /\ failed_at = "none"

inputs == <<metrics_file, profile_file, shapiro_p>>
tables == <<df_metrics, df_profile, df>>
results == <<desc, htest, pdesc, pinf>>

\* mutant: the exception is swallowed and main goes on to the next call
RaiseAndContinue(stage) ==
    /\ pc' = (IF stage = "import" THEN "load_metrics"
              ELSE IF stage = "create_boxplots" THEN "done"
              ELSE StageOrder[StageIndex(stage) + 1])
    /\ failed_at' = stage

\* an exception propagates out of main: the run ends where it is
Raise(stage) ==
    /\ pc' = "error"
    /\ failed_at' = stage

\* a stage returns: main goes on to the next call
Return(stage) ==
    /\ pc' = NextPc(stage)
    /\ finished' = Append(finished, stage)
    /\ consumed' = consumed \cup {<<stage, a>> : a \in Reads(stage)}
    /\ failed_at' = failed_at

\* to_csv(out_dir / name): the file is written into the directory
ToCsv(stage) ==
    /\ dir_exists
    /\ written' = Append(written, OutFile(CsvName(stage)))

\* module level: out_dir.mkdir(parents=True, exist_ok=True)
ModuleImport ==
    /\ pc = "import"
    /\ dir_exists' = TRUE
    /\ pc' = "load_metrics"
    /\ UNCHANGED <<plot_i, inputs, tables, results, written, finished, consumed, calls, failed_at>>

\* mkdir raises (no permission, a file of that name): main is never called
ImportRaises ==
    /\ pc = "import"
    /\ Raise("import")
    /\ UNCHANGED <<plot_i, inputs, dir_exists, tables, results, written, finished, consumed, calls>>

\* df_metrics = load_metrics(metrics_csv)
LoadMetrics ==
    /\ pc = "load_metrics"
    /\ IF load_metrics_raises(metrics_file)
       THEN /\ Raise("load_metrics")
            /\ UNCHANGED <<df_metrics, finished, consumed>>
       ELSE /\ df_metrics' = load_metrics(metrics_file)
            /\ Return("load_metrics")
    /\ UNCHANGED <<plot_i, inputs, dir_exists, df_profile, df, results, written, calls>>

\* df_profile = load_profile(profile_csv)
LoadProfile ==
    /\ pc = "load_profile"
    /\ df_profile' = load_profile(profile_file)
    /\ Return("load_profile")
    /\ UNCHANGED <<plot_i, inputs, dir_exists, df_metrics, df, results, written, calls>>

\* df = pd.merge(df_metrics, df_profile, on="ID", how="left")
Merge ==
    /\ pc = "merge"
    /\ IF merge_raises(df_metrics, df_profile)
       THEN /\ Raise("merge")
            /\ UNCHANGED <<df, finished, consumed>>
       ELSE /\ df' = merge(df_metrics, df_profile)
            /\ Return("merge")
    /\ UNCHANGED <<plot_i, inputs, dir_exists, df_metrics, df_profile, results, written, calls>>

\* desc = descriptive_stats(df); desc.to_csv(...)
DescriptiveStats ==
    /\ pc = "descriptive_stats"
    /\ desc' = descriptive_stats(df)
    /\ ToCsv("descriptive_stats")
    /\ Return("descriptive_stats")
    /\ UNCHANGED <<plot_i, inputs, dir_exists, tables, htest, pdesc, pinf, calls>>

\* htest = hypothesis_tests(df); htest.to_csv(...)
HypothesisTests ==
    /\ pc = "hypothesis_tests"
    /\ calls' = calls \o hypothesis_calls(df, shapiro_p)
    /\ htest' = hypothesis_tests(shapiro_p)
    /\ ToCsv("hypothesis_tests")
    /\ Return("hypothesis_tests")
    /\ UNCHANGED <<plot_i, inputs, dir_exists, tables, desc, pdesc, pinf>>

\* pdesc = profile_descriptive(df_profile); pdesc.to_csv(...)
ProfileDescriptive ==
    /\ pc = "profile_descriptive"
    /\ IF profile_descriptive_raises(df_profile)
       THEN /\ Raise("profile_descriptive")
            /\ UNCHANGED <<pdesc, written, finished, consumed>>
       ELSE /\ pdesc' = profile_descriptive(df_profile)
            /\ ToCsv("profile_descriptive")
            /\ Return("profile_descriptive")
    /\ UNCHANGED <<plot_i, inputs, dir_exists, tables, desc, htest, pinf, calls>>

\* pinf = profile_influence(df); pinf.to_csv(...)
ProfileInfluence ==
    /\ pc = "profile_influence"
    /\ IF profile_influence_raises(df)
       THEN /\ Raise("profile_influence")
            /\ UNCHANGED <<df, pinf, written, finished, consumed, calls>>
       ELSE /\ df' = WithOrdinals(df)
            /\ calls' = calls \o profile_influence_calls(df)
            /\ pinf' = profile_influence(df)
            /\ ToCsv("profile_influence")
            /\ Return("profile_influence")
    /\ UNCHANGED <<plot_i, inputs, dir_exists, df_metrics, df_profile, desc, htest, pdesc>>

\* one iteration of create_boxplots: the figure of a metric is drawn and saved
CreateBoxplot ==
    /\ pc = "create_boxplots"
    /\ dir_exists
    /\ written' = Append(written, OutFile(BoxplotName(MetricList[plot_i])))
    /\ IF plot_i = Len(MetricList)
       THEN /\ Return("create_boxplots")
            /\ plot_i' = plot_i
       ELSE /\ plot_i' = plot_i + 1
            /\ UNCHANGED <<pc, finished, consumed, failed_at>>
    /\ UNCHANGED <<inputs, dir_exists, tables, results, calls>>

\* a library call of the current stage raises (read_csv on a missing file, a
\* pandas or matplotlib error, a failing to_csv or savefig): the exception
\* ends the run, and what has been written stays
LibraryRaises ==
    /\ pc \in Range(StageOrder)
    /\ Raise(pc)
    /\ UNCHANGED <<plot_i, inputs, dir_exists, tables, results, written, finished, consumed, calls>>

\* a scipy.stats call of hypothesis_tests raises: the calls up to it are made
HypothesisStatRaises ==
    /\ pc = "hypothesis_tests"
    /\ \E k \in 1..Len(hypothesis_calls(df, shapiro_p)) :
        calls' = calls \o SubSeq(hypothesis_calls(df, shapiro_p), 1, k)
    /\ Raise(pc)
    /\ UNCHANGED <<plot_i, inputs, dir_exists, tables, results, written, finished, consumed>>

\* a scipy.stats call of profile_influence raises: the ordinal columns are
\* assigned and the calls up to it are made
InfluenceStatRaises ==
    /\ pc = "profile_influence"
    /\ ~profile_influence_raises(df)
    /\ df' = WithOrdinals(df)
    /\ \E k \in 1..Len(profile_influence_calls(df)) :
        calls' = calls \o SubSeq(profile_influence_calls(df), 1, k)
    /\ Raise(pc)
    /\ UNCHANGED <<plot_i, inputs, dir_exists, df_metrics, df_profile, results, written, finished, consumed>>

Next ==
    \/ ModuleImport
    \/ ImportRaises
    \/ LoadMetrics
    \/ LoadProfile
    \/ Merge
    \/ DescriptiveStats
    \/ HypothesisTests
    \/ ProfileDescriptive
    \/ ProfileInfluence
    \/ CreateBoxplot
    \/ LibraryRaises
    \/ HypothesisStatRaises
    \/ InfluenceStatRaises

Spec == Init /\ [][Next]_vars

-----------------------------------------------------------------------------
(* Properties *)

ResultsDir == "./results"
CsvFiles ==
    <<"descriptive_stats.csv", "hypothesis_results.csv", "profile_stats.csv",
      "profile_influence.csv">>
ChartFiles == <<"boxplot_tempo_h.png", "boxplot_erros.png", "boxplot_design.png">>
AllFiles == CsvFiles \o ChartFiles
WrittenNames == [i \in 1..Len(written) |-> written[i].name]
IsPrefix(s, t) == Len(s) <= Len(t) /\ s = SubSeq(t, 1, Len(s))

C2_Original ==
    /\ IsPrefix(finished, StageOrder)
    /\ \A k \in 2..Len(finished) :
        \E a \in Yields(finished[k - 1]) : <<finished[k], a>> \in consumed
    /\ IsPrefix(WrittenNames, AllFiles)
    /\ (written # << >> => df # Unset)

ArtifactsOf(stages) == UNION {Yields(st) : st \in stages}
ConsumedBy(stage) == {a \in ArtifactsOf(Range(StageOrder)) \cup {"metrics_csv", "profile_csv"} : <<stage, a>> \in consumed}

\* C2 (amended): the stages run in the fixed order, each at most once and only
\* after its predecessor has finished; the two loaders consume only their
\* input file, and every later stage consumes tables assigned by earlier
\* stages (the join consumes both loaded tables; the statistics, the influence
\* tests and the charts consume the joined table; the frequency tables
\* consume the loaded profile table), not necessarily by the stage right
\* before it; the files are written in the fixed order, none before the join.
C2_Amended ==
    /\ IsPrefix(finished, StageOrder)
    /\ (pc \in Range(StageOrder) => pc = StageOrder[Len(finished) + 1])
    /\ (pc = "done" => finished = StageOrder)
    /\ \A k \in 1..Len(finished) :
        /\ ConsumedBy(finished[k]) # {}
        /\ IF k = 1 THEN ConsumedBy(finished[k]) = {"metrics_csv"}
           ELSE IF k = 2 THEN ConsumedBy(finished[k]) = {"profile_csv"}
           ELSE ConsumedBy(finished[k]) \subseteq ArtifactsOf({finished[j] : j \in 1..(k - 1)})
    /\ (Len(finished) >= 3 => ConsumedBy("merge") = {"df_metrics", "df_profile"})
    /\ (Len(finished) >= 6 => ConsumedBy("profile_descriptive") = {"df_profile"})
    /\ \A st \in {"descriptive_stats", "hypothesis_tests", "profile_influence", "create_boxplots"} :
        st \in Range(finished) => ConsumedBy(st) = {"df"}
    /\ IsPrefix(WrittenNames, AllFiles)
    /\ (written # << >> => df # Unset)

C2_Witness == pc = "done" /\ Len(finished) = 8 /\ Len(written) = 7

\* the rows of the joined table that carry a given outcome record
CarriedBy(m) ==
    {j \in 1..Len(df.rows) :
        /\ df.rows[j].ID = m.ID /\ df.rows[j].tempo_h = m.tempo_h
        /\ df.rows[j].erros = m.erros /\ df.rows[j].design = m.design
        /\ df.rows[j].ferramenta = m.ferramenta}
ProfileIDs == {df_profile.rows[k].ID : k \in 1..Len(df_profile.rows)}
MetricIDs == {df_metrics.rows[i].ID : i \in 1..Len(df_metrics.rows)}
ProfileMissing(r) ==
    r.formacao = NA /\ r.experiencia = NA /\ r.kn_ref = NA /\ r.kn_java = NA

\* C3: the join is a left join: every outcome record is in the joined table;
\* one without a profile is kept with its profile fields missing; a profile
\* that matches no outcome record does not appear; with unique profile
\* identifiers the joined table has as many rows as the metrics table.
C3_LeftJoin ==
    df # Unset =>
        /\ \A i \in 1..Len(df_metrics.rows) : CarriedBy(df_metrics.rows[i]) # {}
        /\ \A i \in 1..Len(df_metrics.rows) :
            df_metrics.rows[i].ID \notin ProfileIDs =>
                \A j \in CarriedBy(df_metrics.rows[i]) : ProfileMissing(df.rows[j])
        /\ \A j \in 1..Len(df.rows) : df.rows[j].ID \in MetricIDs
        /\ \A j \in 1..Len(df.rows) :
            ~ProfileMissing(df.rows[j]) =>
                \E k \in 1..Len(df_profile.rows) :
                    /\ df_profile.rows[k].ID = df.rows[j].ID
                    /\ df_profile.rows[k].experiencia = df.rows[j].experiencia
        /\ (Cardinality(ProfileIDs) = Len(df_profile.rows) =>
                /\ Len(df.rows) = Len(df_metrics.rows)
                /\ \A i \in 1..Len(df.rows) : i \in CarriedBy(df_metrics.rows[i]))

C3_Witness ==
    /\ df # Unset
    /\ \E i \in 1..Len(df_metrics.rows) : df_metrics.rows[i].ID \notin ProfileIDs
    /\ \E k \in 1..Len(df_profile.rows) : df_profile.rows[k].ID \notin MetricIDs
    /\ Cardinality(ProfileIDs) = Len(df_profile.rows)

\* the texts of the model's cells that are not numbers
NonNumericTexts == {<<"a", "b", "c">>, <<"x">>}
BadCellIn(cols) ==
    \E i \in 1..Len(metrics_file.rows) : \E f \in cols : metrics_file.rows[i][f] \in NonNumericTexts
\* a column is absent: the file carries it under no name the code finds it by
MetricsColumnAbsent == \E f \in MetricFields : metrics_file.header[f] \notin {MetricHeader(f), f}
ProfileColumnAbsent == \E f \in ProfileFields : profile_file.header[f] \notin {ProfileHeader(f), f}

\* C4 (as stated): a non-numeric value in any numeric column of the metrics
\* file, or an absent expected header, keeps the run from completing.
C4_Original ==
    (BadCellIn({"tempo_h", "loc_mod", "erros", "design"}) \/ MetricsColumnAbsent
        \/ ProfileColumnAbsent) => pc # "done"

\* C4 (amended): a text that is no number in the time or lines-modified column
\* (after trimming and with a decimal comma allowed; an empty cell is a
\* missing value, not an error), or an absent column of the metrics file,
\* makes load_metrics raise: the run ends there with nothing written.  An
\* absent column of the profile file keeps the run from completing.  A text that is no number in the
\* functional-errors or design-issues column is coerced to a missing value
\* and does not stop the run.
C4_Amended ==
    /\ (BadCellIn({"tempo_h", "loc_mod"}) \/ MetricsColumnAbsent) =>
            /\ pc \in {"import", "load_metrics", "error"}
            /\ (pc = "error" => failed_at \in {"import", "load_metrics"})
            /\ df_metrics = Unset
            /\ written = << >>
    /\ ProfileColumnAbsent => pc # "done"
    /\ (~(BadCellIn({"tempo_h", "loc_mod"}) \/ MetricsColumnAbsent) /\ pc = "load_profile") =>
            /\ df_metrics # Unset
            /\ Len(df_metrics.rows) = Len(metrics_file.rows)
            /\ \A i \in 1..Len(metrics_file.rows) : \A f \in {"erros", "design"} :
                metrics_file.rows[i][f] \in NonNumericTexts => df_metrics.rows[i][f] = NaN
            /\ \A i \in 1..Len(metrics_file.rows) :
                /\ metrics_file.rows[i].tempo_h = << >> => df_metrics.rows[i].tempo_h = NaN
                /\ metrics_file.rows[i].tempo_h = <<"1", ",", "5">> => df_metrics.rows[i].tempo_h = <<15>>
                /\ metrics_file.rows[i].tempo_h = <<" ", "2", " ">> => df_metrics.rows[i].tempo_h = <<20>>

C4_Witness ==
    /\ pc = "error" /\ failed_at = "load_metrics"
    /\ BadCellIn({"tempo_h"}) /\ ~BadCellIn({"loc_mod"}) /\ ~MetricsColumnAbsent


PAbove(p) == p # NaN /\ p[1] > 50
BothAbove(m) == PAbove(shapiro_p[<<m, "SmartRefactor">>]) /\ PAbove(shapiro_p[<<m, "Tradicional">>])
TestCallsFor(m) ==
    {i \in 1..Len(calls) : calls[i].metric = m /\ calls[i].fn \in {"ttest_ind", "mannwhitneyu"}}
HypLabels == <<"Tempo (h)", "Erros Funcionais", "Problemas de Design">>
HypMetrics == <<"tempo_h", "erros", "design">>

\* C5: hypothesis_tests returns three rows, for time, functional errors and
\* design issues in this order; a row's test is the Welch t-test exactly when
\* both Shapiro-Wilk p-values of the metric are strictly greater than 0.05,
\* and Mann-Whitney otherwise (a p-value of exactly 0.05, or NaN, included);
\* Normal? is true exactly for Welch rows; one test call is made per metric,
\* the one the row names.
C5_NormalityGate ==
    htest # Unset =>
        /\ Len(htest) = 3
        /\ \A k \in 1..3 :
            /\ htest[k].Metrica = HypLabels[k]
            /\ htest[k].Teste \in {"t (Welch)", "Mann-Whitney"}
            /\ (htest[k].Teste = "t (Welch)" <=> BothAbove(HypMetrics[k]))
            /\ (htest[k].Normal <=> htest[k].Teste = "t (Welch)")
            /\ Cardinality(TestCallsFor(HypMetrics[k])) = 1
            /\ \A i \in TestCallsFor(HypMetrics[k]) :
                calls[i].fn = "ttest_ind" <=> htest[k].Teste = "t (Welch)"

C5_Witness ==
    /\ htest # Unset
    /\ htest[1].Teste = "t (Welch)"
    /\ htest[2].Teste = "Mann-Whitney"
    /\ shapiro_p[<<"erros", "SmartRefactor">>] = <<50>>
    /\ shapiro_p[<<"erros", "Tradicional">>] = <<51>>
    /\ htest[3].Teste = "Mann-Whitney"
    /\ shapiro_p[<<"design", "Tradicional">>] = NaN

ToolValues == {df.rows[i].ferramenta : i \in 1..Len(df.rows)} \ {NA}
TimedRowsOf(k) == {i \in 1..Len(df.rows) : df.rows[i].ferramenta = k /\ df.rows[i].tempo_h # NaN}
RECURSIVE SumN(_, _)
SumN(d, keys) ==
    IF keys = {} THEN 0
    ELSE LET k == CHOOSE x \in keys : TRUE IN d[k].n + SumN(d, keys \ {k})

\* C6: descriptive_stats has one row per distinct tool value of the joined
\* table; a row's n is the number of joined records of that tool with a time
\* value present; the n values sum to the number of joined records that have
\* a tool and a time value.
C6_CountPerTool ==
    desc # Unset =>
        /\ DOMAIN desc = ToolValues
        /\ \A k \in DOMAIN desc : desc[k].n = Cardinality(TimedRowsOf(k))
        /\ SumN(desc, DOMAIN desc) =
            Cardinality({i \in 1..Len(df.rows) :
                df.rows[i].ferramenta # NA /\ df.rows[i].tempo_h # NaN})

C6_Witness ==
    /\ desc # Unset
    /\ Cardinality(DOMAIN desc) = 2
    /\ \E k \in DOMAIN desc : desc[k].n = 0
    /\ \E k \in DOMAIN desc : desc[k].n = 1


ExpLevels == <<"0-1 anos", "1-2 anos", "3-5 anos", "6+ anos">>
KnLevels == <<"Nenhum", "Basico", "Razoavel", "Avancado">>
\* column num of row r is the zero-based position of column src in levels, or
\* missing when the value of src is not one of the levels
OrdinalOf(r, src, num, levels) ==
    /\ \A k \in 1..4 : r[src] = levels[k] => r[num] = <<k - 1>>
    /\ r[src] \notin Range(levels) => r[num] = NaN
StrictlyIncreasing(order) ==
    \A a, b \in 1..4 : a < b =>
        LET v == map_ordinal(<<order[a], order[b]>>, order) IN
        /\ v[1] # NaN /\ v[2] # NaN
        /\ v[1][1] \in 0..3 /\ v[2][1] \in 0..3
        /\ v[1][1] < v[2][1]
OrdersStrictlyIncreasing ==
    /\ StrictlyIncreasing(exp_order) /\ StrictlyIncreasing(kn_order)
    /\ exp_order = ExpLevels /\ kn_order = KnLevels
Joined == merge(df_metrics, df_profile)

\* C7: map_ordinal gives each category its zero-based position in the order
\* list, so the experience and knowledge levels map into 0..3 strictly
\* increasing; a value that is not in the list, a profile field missing after
\* the left join included, maps to a missing value; the ordinal columns have
\* the length and row order of the joined table.
C7_MapOrdinal ==
    /\ OrdersStrictlyIncreasing
    /\ (df # Unset /\ "exp_num" \in df.cols) =>
        LET J == Joined.rows IN
        /\ Len(df.rows) = Len(J)
        /\ \A i \in 1..Len(df.rows) :
            /\ \A f \in DOMAIN J[i] : df.rows[i][f] = J[i][f]
            /\ OrdinalOf(df.rows[i], "experiencia", "exp_num", ExpLevels)
            /\ OrdinalOf(df.rows[i], "kn_ref", "kn_ref_num", KnLevels)
            /\ OrdinalOf(df.rows[i], "kn_java", "kn_java_num", KnLevels)

C7_Witness ==
    /\ df # Unset /\ "exp_num" \in df.cols
    /\ \E i \in 1..Len(df.rows) :
        /\ df.rows[i].experiencia = NA /\ df.rows[i].exp_num = NaN
        /\ df.rows[i].ID \notin ProfileIDs
    /\ \E i \in 1..Len(df.rows) : df.rows[i].exp_num = <<1>>

SixSpearman ==
    <<[Variavel |-> "Experiencia", Metrica |-> "Erros", Teste |-> "Spearman rho"],
      [Variavel |-> "Experiencia", Metrica |-> "Design", Teste |-> "Spearman rho"],
      [Variavel |-> "Conhecimento Refatoracao", Metrica |-> "Erros", Teste |-> "Spearman rho"],
      [Variavel |-> "Conhecimento Refatoracao", Metrica |-> "Design", Teste |-> "Spearman rho"],
      [Variavel |-> "Conhecimento Java", Metrica |-> "Erros", Teste |-> "Spearman rho"],
      [Variavel |-> "Conhecimento Java", Metrica |-> "Design", Teste |-> "Spearman rho"]>>
TwoKruskal ==
    <<[Variavel |-> "Experiencia (categorias)", Metrica |-> "Erros", Teste |-> "Kruskal-Wallis"],
      [Variavel |-> "Experiencia (categorias)", Metrica |-> "Design", Teste |-> "Kruskal-Wallis"]>>
LevelsInTable == {l \in Range(ExpLevels) : \E i \in 1..Len(df.rows) : df.rows[i].experiencia = l}

\* C8: profile_influence returns the six Spearman rows first, the ordinal
\* variable outermost, then the Kruskal-Wallis rows for errors and design,
\* which are both there when at least two experience levels occur in the
\* joined table and both absent otherwise: 8 rows or 6.
C8_InfluenceRows ==
    pinf # Unset =>
        /\ Len(pinf) \in {6, 8}
        /\ SubSeq(pinf, 1, 6) = SixSpearman
        /\ (Len(pinf) = 8 <=> Cardinality(LevelsInTable) >= 2)
        /\ (Len(pinf) = 8 => SubSeq(pinf, 7, 8) = TwoKruskal)

C8_Witness == pinf # Unset /\ Len(pinf) = 8 /\ Cardinality(LevelsInTable) = 2

\* C9: every group profile_influence passes to the Kruskal-Wallis test holds
\* at least one value.
C9_GroupsNonEmpty ==
    \A i \in 1..Len(calls) :
        calls[i].fn = "kruskal" => \A g \in 1..Len(calls[i].args) : calls[i].args[g] # << >>

StageFile(stage) ==
    CASE stage = "descriptive_stats" -> <<"descriptive_stats.csv">>
      [] stage = "hypothesis_tests" -> <<"hypothesis_results.csv">>
      [] stage = "profile_descriptive" -> <<"profile_stats.csv">>
      [] stage = "profile_influence" -> <<"profile_influence.csv">>
      [] stage = "create_boxplots" -> ChartFiles
      [] OTHER -> << >>
FilesOfFinished == Flatten([k \in 1..Len(finished) |-> StageFile(finished[k])])

\* C10 (as stated): when a stage fails the run stops there; the files of the
\* stages completed before it are written and no file of the failing stage or
\* of a later one is.
C10_Original ==
    failed_at # "none" =>
        /\ pc = "error"
        /\ WrittenNames = FilesOfFinished

\* C10 (amended): when a stage fails the run stops there, with no rollback and
\* no continuation; the files of the stages completed before it are written
\* (a file is written once its write call has returned) and no file of a
\* later stage is.  No file of the failing stage is written
\* either, except in create_boxplots, which saves its charts one by one: the
\* charts of the metrics before the failing one stay written.  A failure in
\* loading or joining leaves nothing written; a failure in hypothesis_tests
\* leaves descriptive_stats.csv alone.
C10_Amended ==
    failed_at # "none" =>
        /\ pc = "error"
        /\ (failed_at = "import" => written = << >> /\ finished = << >>)
        /\ (failed_at # "import" => failed_at = StageOrder[Len(finished) + 1])
        /\ WrittenNames = FilesOfFinished \o
                (IF failed_at = "create_boxplots" THEN SubSeq(ChartFiles, 1, plot_i - 1) ELSE << >>)
        /\ (failed_at \in {"load_metrics", "load_profile", "merge"} => written = << >>)
        /\ (failed_at = "hypothesis_tests" => WrittenNames = <<"descriptive_stats.csv">>)

C10_Witness ==
    /\ pc = "error" /\ failed_at = "create_boxplots"
    /\ WrittenNames = CsvFiles \o <<"boxplot_tempo_h.png">>

=============================================================================
